---- MODULE Spec2Model ----
(***************************************************************************)
(* A model of EPUBC.py: the batch driver (main), the per-file orchestrator *)
(* (process_epub) and its steps (unpack_epub, find_image_folders,          *)
(* compress_images_in_folders / compress_image / resize_image,            *)
(* repack_epub), over a small file system.                                 *)
(***************************************************************************)
EXTENDS Integers, Sequences, FiniteSets, TLC

\* ------------------------------------------------------------ constants
EPUB_EXTENSION == ".epub"
COMPRESSED_FOLDER_NAME == "compressed_files"

\* ----------------------------------------------- binary64 arithmetic
\* resize_image computes int((max_height / height) * width) in Python floats
\* (IEEE-754 binary64, round to nearest, ties to even).  A float is modelled
\* as its 53 significand bits, most significant first, and the exponent of
\* the first bit: the value of [m |-> b, e |-> e] is
\*    SUM_i  b[i] * 2^(e - (i - 1)).
MantissaBits == 53
LimbBits == 8

RECURSIVE Pow2(_)
Pow2(k) == IF k = 0 THEN 1
           ELSE LET half == Pow2(k \div 2)
                IN  half * half * (IF k % 2 = 1 THEN 2 ELSE 1)

RECURSIVE Pow2Mod(_, _)
\* 2^k modulo d, by repeated squaring (d < 2^15).
Pow2Mod(k, d) == IF k = 0 THEN 1 % d
                 ELSE LET half == Pow2Mod(k \div 2, d)
                      IN  (half * half * (IF k % 2 = 1 THEN 2 ELSE 1)) % d

RECURSIVE Normalise(_, _, _)
\* (n, d, e) with d <= n < 2d and  n/d * 2^e  equal to the quotient asked for.
Normalise(n, d, e) ==
    IF n < d THEN Normalise(2 * n, d, e - 1)
    ELSE IF n >= 2 * d THEN Normalise(n, 2 * d, e + 1)
    ELSE <<n, d, e>>

\* What is left of n * 2^i after dividing by d:  (n * 2^i) mod d.
DivRem(n, d, i) == ((n % d) * Pow2Mod(i, d)) % d

\* The first k bits of the long division n / d (d <= n < 2d): the bit of
\* weight 2^-i is 1 exactly when twice the remainder before it reaches d.
DivBits(n, d, k) ==
    [j \in 1..k |-> IF j = 1 THEN 1
                    ELSE IF 2 * DivRem(n, d, j - 2) >= d THEN 1 ELSE 0]

\* bits + 1; carry 1 when every bit was 1.
Increment(bits) ==
    LET zeros == {i \in 1..Len(bits) : bits[i] = 0}
        z == CHOOSE i \in zeros : \A j \in zeros : j <= i
    IN  IF zeros = {} THEN [bits |-> bits, carry |-> 1]
        ELSE [bits |-> [i \in 1..Len(bits) |->
                           IF i < z THEN bits[i] ELSE IF i = z THEN 1 ELSE 0],
              carry |-> 0]

\* Round to nearest, ties to even: cmp is the sign of (discarded part - half
\* a unit in the last place).
RoundNearestEven(bits, e, cmp) ==
    LET up == cmp > 0 \/ (cmp = 0 /\ bits[Len(bits)] = 1)
        inc == Increment(bits)
    IN  IF ~up THEN [m |-> bits, e |-> e]
        ELSE IF inc.carry = 0 THEN [m |-> inc.bits, e |-> e]
        ELSE [m |-> [i \in 1..Len(bits) |-> IF i = 1 THEN 1 ELSE 0], e |-> e + 1]

\* The float  num / den  of two positive integers (Python's int / int is
\* correctly rounded).
FloatDiv(num, den) ==
    LET nz   == Normalise(num, den, 0)
        bits == DivBits(nz[1], nz[2], MantissaBits)
        left == 2 * DivRem(nz[1], nz[2], MantissaBits - 1)
        cmp  == IF left > nz[2] THEN 1 ELSE IF left = nz[2] THEN 0 ELSE -1
    IN  RoundNearestEven(bits, nz[3], cmp)

RECURSIVE BitsToInt(_)
BitsToInt(bits) ==
    IF Len(bits) = 0 THEN 0
    ELSE IF Len(bits) = 1 THEN bits[1]
    ELSE LET h == Len(bits) \div 2
         IN  BitsToInt(SubSeq(bits, 1, h)) * Pow2(Len(bits) - h)
             + BitsToInt(SubSeq(bits, h + 1, Len(bits)))

RECURSIVE Binary(_)
\* n in binary, most significant bit first; <<>> for 0.
Binary(n) == IF n = 0 THEN <<>> ELSE Append(Binary(n \div 2), n % 2)

\* The significand padded with zeros in front to whole limbs, as limbs of
\* LimbBits bits, most significant first.
Limbs(bits) ==
    LET pad == (LimbBits - (Len(bits) % LimbBits)) % LimbBits
        all == [i \in 1..pad |-> 0] \o bits
    IN  [k \in 1..(Len(all) \div LimbBits) |->
            BitsToInt(SubSeq(all, (k - 1) * LimbBits + 1, k * LimbBits))]

RECURSIVE MulFrom(_, _, _, _)
\* limbs * k from limb i down; the carry out of the first limb is kept.
MulFrom(limbs, k, i, carry) ==
    IF i = 0 THEN [limbs |-> <<>>, carry |-> carry]
    ELSE LET t == limbs[i] * k + carry
             rest == MulFrom(limbs, k, i - 1, t \div Pow2(LimbBits))
         IN  [limbs |-> Append(rest.limbs, t % Pow2(LimbBits)), carry |-> rest.carry]

\* The bits of a sequence of limbs.
LimbsToBits(limbs) ==
    [i \in 1..(Len(limbs) * LimbBits) |->
        (limbs[((i - 1) \div LimbBits) + 1]
            \div Pow2(LimbBits - 1 - ((i - 1) % LimbBits))) % 2]

\* The float  f * k  for a positive integer k (exact as a float).
FloatMulInt(f, k) ==
    LET limbs == Limbs(f.m)
        p     == MulFrom(limbs, k, Len(limbs), 0)
        wide  == Binary(p.carry) \o LimbsToBits(p.limbs)
        first == CHOOSE i \in 1..Len(wide) :
                    wide[i] = 1 /\ \A j \in 1..(i - 1) : wide[j] = 0
        all   == SubSeq(wide, first, Len(wide))
        \* bits of the product beyond those of f * 1
        grown == Len(all) - MantissaBits
        tail  == SubSeq(all, MantissaBits + 1, Len(all))
        cmp   == IF grown = 0 \/ tail[1] = 0 THEN -1
                 ELSE IF \E j \in 2..grown : tail[j] = 1 THEN 1 ELSE 0
    IN  IF grown = 0 THEN [m |-> all, e |-> f.e]
        ELSE RoundNearestEven(SubSeq(all, 1, MantissaBits), f.e + grown, cmp)

\* int(f): truncation toward zero of a positive float below 2^31.
FloatToInt(f) == IF f.e < 0 THEN 0 ELSE BitsToInt(SubSeq(f.m, 1, f.e + 1))

\* ------------------------------------------------------ resize_image
\* new_width = int((max_height / height) * width)
new_width_round(width, height, max_height) ==
    (2 * max_height * width + height) \div (2 * height)

new_width(width, height, max_height) ==
    FloatToInt(FloatMulInt(FloatDiv(max_height, height), width))

\* image.resize((new_width, max_height), LANCZOS): Pillow raises ValueError
\* ("height and width must be > 0") for an empty target size.
\* size is <<width, height>>; the result is the returned image's size, or a
\* raised exception.
resize_image(size, max_height) ==
    IF size[2] > max_height
    THEN LET nw == new_width(size[1], size[2], max_height)
         IN  IF nw < 1 THEN [raised |-> TRUE, size |-> size]
             ELSE [raised |-> FALSE, size |-> <<nw, max_height>>]
    ELSE [raised |-> FALSE, size |-> size]

\* ---------------------------------------------------------- names
\* str.lower() on the names that occur; every other name used is already in
\* lower case.
lower(s) ==
    CASE s = "Images" -> "images"
      [] s = "IMG"    -> "img"
      [] s = ".PNG"   -> ".png"
      [] s = ".JPG"   -> ".jpg"
      [] OTHER        -> s

IMAGE_FOLDER_NAMES == {"images", "img", "image"}
IMAGE_EXTENSIONS == {".jpg", ".jpeg", ".png"}

\* A file name is [dir, stem, ext]: the directories leading to it and the two
\* parts of its last component (stem \o ext).
Name(dir, stem, ext) == [dir |-> dir, stem |-> stem, ext |-> ext]

\* p is a prefix of q (a directory at or above q).
IsPrefix(p, q) == Len(p) <= Len(q) /\ SubSeq(q, 1, Len(p)) = p

\* The directories at or above dir, strictly below root.
DirsAbove(dir, root) ==
    {SubSeq(dir, 1, n) : n \in (Len(root) + 1)..Len(dir)}

\* os.path.join(extract_to, name)
join(root, name) == [name EXCEPT !.dir = root \o name.dir]

\* os.path.relpath(file_path, extract_path), file_path being under it
relpath_basename(file_path, extract_path) == [file_path EXCEPT !.dir = <<>>]

relpath(file_path, extract_path) ==
    [file_path EXCEPT !.dir = SubSeq(file_path.dir, Len(extract_path) + 1,
                                     Len(file_path.dir))]

\* ------------------------------------------------------- file contents
\* What a file holds, as far as Pillow and the archive can tell:
\*   format  what Image.open reports ("NONE": it raises, not image data)
\*   size    <<width, height>> of the image
\*   passes  lossy re-encodings applied by compress_image
\*   torn    the file was opened for writing and the write did not complete
Content(format, size, passes) ==
    [format |-> format, size |-> size, passes |-> passes, torn |-> FALSE]

Data == Content("NONE", <<0, 0>>, 0)
Torn == [format |-> "NONE", size |-> <<0, 0>>, passes |-> 0, torn |-> TRUE]

\* ----------------------------------------------------- compress_image
\* The decision of compress_image for one file: content is what the file
\* holds, io whether the in-place save completes ("ok") or raises after the
\* file was opened for writing ("fail").  The result is the file's new content
\* and what was printed.
compress_image_by_extension(content, ext, io, max_height) ==
    IF content.format = "NONE" \/ resize_image(content.size, max_height).raised
    THEN [content |-> content, said |-> "failed"]
    ELSE IF io = "fail" THEN [content |-> Torn, said |-> "failed"]
    ELSE [content |-> Content(IF lower(ext) = ".png" THEN "PNG" ELSE "JPEG",
                              resize_image(content.size, max_height).size,
                              content.passes + 1),
          said |-> "saved"]

compress_image(content, ext, io, max_height) ==
    IF content.format = "NONE"
    THEN \* Image.open raises
         [content |-> content, said |-> "failed"]
    ELSE LET original_format == content.format
             img == resize_image(content.size, max_height)
         IN  IF img.raised
             THEN [content |-> content, said |-> "failed"]
             ELSE IF original_format \in {"JPEG", "JPG"}
             THEN IF io = "fail"
                  THEN [content |-> Torn, said |-> "failed"]
                  ELSE [content |-> Content("JPEG", img.size, content.passes + 1),
                        said |-> "saved"]
             ELSE IF original_format = "PNG"
             THEN IF io = "fail"
                  THEN [content |-> Torn, said |-> "failed"]
                  ELSE [content |-> Content("PNG", img.size, content.passes + 1),
                        said |-> "saved"]
             ELSE [content |-> content, said |-> "skipped"]

\* ------------------------------------------------------- archives
\* A ZIP file: whether it is a well-formed container, its file entries (a
\* function from entry name to content) and its directory entries.
Zip(files, dirs) == [valid |-> TRUE, files |-> files, dirs |-> dirs]
BadZip == [valid |-> FALSE, files |-> <<>>, dirs |-> {}]

\* zip_ref.extractall(extract_to): the working area after extraction, as
\* [files, dirs]: every file entry at join(extract_to, name), and every
\* directory on the way to a file or named by a directory entry.
extractall(zip, extract_to) ==
    [files |-> [f \in {join(extract_to, n) : n \in DOMAIN zip.files} |->
                   zip.files[CHOOSE n \in DOMAIN zip.files : join(extract_to, n) = f]],
     dirs  |-> UNION ({DirsAbove(extract_to \o n.dir, extract_to) : n \in DOMAIN zip.files}
                      \cup {DirsAbove(extract_to \o d, extract_to) : d \in zip.dirs})]

\* find_image_folders(extract_path): the directories os.walk lists whose name
\* is an image folder name.
find_image_folders_any_entry(area) ==
    {d \in area.dirs : lower(d[Len(d)]) \in IMAGE_FOLDER_NAMES}
    \cup {Append(f.dir, f.stem) : f \in {g \in DOMAIN area.files :
              g.ext = "" /\ lower(g.stem) \in IMAGE_FOLDER_NAMES}}

find_image_folders(area) ==
    {d \in area.dirs : lower(d[Len(d)]) \in IMAGE_FOLDER_NAMES}

\* os.walk is top-down: a directory is listed before the directories below
\* it; the order among the others is the file system's.
WalkOrders(S) ==
    {o \in [1..Cardinality(S) -> S] :
        /\ \A i, j \in 1..Cardinality(S) : i # j => o[i] # o[j]
        /\ \A i, j \in 1..Cardinality(S) :
              (o[i] # o[j] /\ IsPrefix(o[i], o[j])) => i < j}

\* The files compress_images_in_folders hands to compress_image for one
\* folder: those at any depth under it whose lower-cased name ends with an
\* image extension.
images_in_folder_any_file(area, folder) ==
    {f \in DOMAIN area.files : IsPrefix(folder, f.dir)}

images_in_folder(area, folder) ==
    {f \in DOMAIN area.files :
        IsPrefix(folder, f.dir) /\ lower(f.ext) \in IMAGE_EXTENSIONS}

\* TemporaryDirectory.__exit__: the working area at root is deleted, however
\* the with block was left ("return", or "raise" for an exception).
cleanup_on_return_only(areas, root, how) ==
    IF how = "return" THEN [r \in DOMAIN areas \ {root} |-> areas[r]] ELSE areas

cleanup(areas, root, how) == [r \in DOMAIN areas \ {root} |-> areas[r]]

\* ------------------------------------------------------------- main
folder_path == <<"EPUBs">>
max_image_height == 320
compressed_dir == Append(folder_path, COMPRESSED_FOLDER_NAME)

\* os.path.basename(epub_path)
basename(path) == [path EXCEPT !.dir = <<>>]

\* glob.glob(os.path.join(folder_path, '*.epub')): one directory level
find_epub_files(files, folder) ==
    {p \in DOMAIN files : p.dir = folder /\ p.ext = EPUB_EXTENSION}

\* output_epub = os.path.join(compressed_dir, base_name)
output_epub(epub_path) == join(compressed_dir, basename(epub_path))

\* The orders in which glob may list a set of paths.
ListingOrders(S) ==
    {o \in [1..Cardinality(S) -> S] :
        \A i, j \in 1..Cardinality(S) : i # j => o[i] # o[j]}

\* The names tempfile gives the working areas, one per processed file.
TempNames == <<"tmpa", "tmpb", "tmpc", "tmpd">>
TempRoot(i) == <<"tmp", TempNames[i]>>

\* f with x mapped to v (x added to its domain when new).
Put(f, x, v) == [y \in DOMAIN f \cup {x} |-> IF y = x THEN v ELSE f[y]]

VARIABLES
    folder_exists,  \* os.path.isdir(folder_path)
    disk,           \* the files under folder_path: path -> ZIP file
    preexisting,    \* the output paths that held a file when main started
    tmp,            \* the working areas that exist: root -> [files, dirs]
    pc,             \* where main is
    epub_files,     \* main: the list find_epub_files returned
    idx,            \* main: position of the for loop in epub_files
    temp_dir,       \* process_epub: the working area's root
    image_folders,  \* process_epub: the list find_image_folders returned
    fi,             \* compress_images_in_folders: position in image_folders
    todo,           \* compress_images_in_folders: images left in this folder
    zip_todo,       \* repack_epub: files of the walk not yet written
    report,         \* what process_epub printed last for each file, in order
    messages,       \* what compress_image printed: <<what, path>>
    rz              \* a call of resize_image on its own

vars == <<folder_exists, disk, preexisting, tmp, pc, epub_files, idx, temp_dir,
          image_folders, fi, todo, zip_todo, report, messages, rz>>

filevars == <<folder_exists, disk, preexisting, tmp, pc, epub_files, idx, temp_dir,
              image_folders, fi, todo, zip_todo, report, messages>>

epub == epub_files[idx]

\* -------------------------------------------------------------- main
\* if not os.path.isdir(folder_path): return
MainNoFolder ==
    /\ pc = "main"
    /\ ~folder_exists
    /\ pc' = "finished"
    /\ UNCHANGED <<folder_exists, disk, preexisting, tmp, epub_files, idx, temp_dir,
                   image_folders, fi, todo, zip_todo, report, messages, rz>>

\* epub_files = find_epub_files(folder_path); if not epub_files: return
MainNoFiles ==
    /\ pc = "main"
    /\ folder_exists
    /\ find_epub_files(disk, folder_path) = {}
    /\ pc' = "finished"
    /\ UNCHANGED <<folder_exists, disk, preexisting, tmp, epub_files, idx, temp_dir,
                   image_folders, fi, todo, zip_todo, report, messages, rz>>

MainStart ==
    /\ pc = "main"
    /\ folder_exists
    /\ find_epub_files(disk, folder_path) # {}
    /\ \E o \in ListingOrders(find_epub_files(disk, folder_path)) : epub_files' = o
    /\ idx' = 0
    /\ pc' = "loop"
    /\ UNCHANGED <<folder_exists, disk, preexisting, tmp, temp_dir,
                   image_folders, fi, todo, zip_todo, report, messages, rz>>

\* for epub in epub_files: process_epub(...) up to the creation of the
\* temporary directory
LoopNext ==
    /\ pc = "loop"
    /\ idx < Len(epub_files)
    /\ idx' = idx + 1
    /\ temp_dir' = TempRoot(idx + 1)
    /\ tmp' = Put(tmp, TempRoot(idx + 1), [files |-> <<>>, dirs |-> {}])
    /\ pc' = "unpack"
    /\ UNCHANGED <<folder_exists, disk, preexisting, epub_files,
                   image_folders, fi, todo, zip_todo, report, messages, rz>>

LoopEnd ==
    /\ pc = "loop"
    /\ idx = Len(epub_files)
    /\ pc' = "finished"
    /\ UNCHANGED <<folder_exists, disk, preexisting, tmp, epub_files, idx, temp_dir,
                   image_folders, fi, todo, zip_todo, report, messages, rz>>

\* ------------------------------------------------------ process_epub
\* An exception leaves the with block (the working area is deleted), is caught
\* by "except Exception" and reported; process_epub returns to the loop.
Said(file, outcome, error) == [file |-> file, outcome |-> outcome, error |-> error]

Failed(e) ==
    /\ tmp' = cleanup(tmp, temp_dir, "raise")
    /\ report' = Append(report, Said(epub, "failed", e))
    /\ pc' = "loop"

\* unpack_epub
UnpackOk ==
    /\ pc = "unpack"
    /\ disk[epub].valid
    /\ tmp' = [tmp EXCEPT ![temp_dir] = extractall(disk[epub], temp_dir)]
    /\ pc' = "locate"
    /\ UNCHANGED <<folder_exists, disk, preexisting, epub_files, idx, temp_dir,
                   image_folders, fi, todo, zip_todo, report, messages, rz>>

\* zipfile.BadZipFile: reported and raised again
UnpackBadZip_uncaught ==
    /\ pc = "unpack"
    /\ ~disk[epub].valid
    /\ tmp' = cleanup(tmp, temp_dir, "raise")
    /\ pc' = "finished"
    /\ UNCHANGED <<folder_exists, disk, preexisting, epub_files, idx, temp_dir,
                   image_folders, fi, todo, zip_todo, report, messages, rz>>

UnpackBadZip ==
    /\ pc = "unpack"
    /\ ~disk[epub].valid
    /\ Failed("BadZipFile")
    /\ UNCHANGED <<folder_exists, disk, preexisting, epub_files, idx, temp_dir,
                   image_folders, fi, todo, zip_todo, messages, rz>>

\* any other error of the extraction (an I/O error)
UnpackError ==
    /\ pc = "unpack"
    /\ disk[epub].valid
    /\ Failed("OSError in extractall")
    /\ UNCHANGED <<folder_exists, disk, preexisting, epub_files, idx, temp_dir,
                   image_folders, fi, todo, zip_todo, messages, rz>>

\* image_folders = find_image_folders(temp_dir); if not image_folders: return
LocateNone ==
    /\ pc = "locate"
    /\ find_image_folders(tmp[temp_dir]) = {}
    /\ tmp' = cleanup(tmp, temp_dir, "return")
    /\ report' = Append(report, Said(epub, "no image folders", ""))
    /\ pc' = "loop"
    /\ UNCHANGED <<folder_exists, disk, preexisting, epub_files, idx, temp_dir,
                   image_folders, fi, todo, zip_todo, messages, rz>>

LocateSome ==
    /\ pc = "locate"
    /\ find_image_folders(tmp[temp_dir]) # {}
    /\ \E o \in WalkOrders(find_image_folders(tmp[temp_dir])) : image_folders' = o
    /\ fi' = 0
    /\ todo' = {}
    /\ pc' = "transform"
    /\ UNCHANGED <<folder_exists, disk, preexisting, tmp, epub_files, idx, temp_dir,
                   zip_todo, report, messages, rz>>

\* compress_images_in_folders: for folder in image_folders
NextFolder ==
    /\ pc = "transform"
    /\ todo = {}
    /\ fi < Len(image_folders)
    /\ fi' = fi + 1
    /\ todo' = images_in_folder(tmp[temp_dir], image_folders[fi + 1])
    /\ UNCHANGED <<folder_exists, disk, preexisting, tmp, pc, epub_files, idx, temp_dir,
                   image_folders, zip_todo, report, messages, rz>>

\* compress_image(image_path, quality, max_height) on the next file of the walk
CompressOne_stops_at_failure ==
    /\ pc = "transform"
    /\ \E f \in todo, io \in {"ok", "fail"} :
          LET r == compress_image(tmp[temp_dir].files[f], f.ext, io, max_image_height)
          IN  /\ tmp' = [tmp EXCEPT ![temp_dir].files[f] = r.content]
              /\ messages' = messages \cup {<<r.said, f>>}
              /\ todo' = IF r.said = "failed" THEN {} ELSE todo \ {f}
              /\ fi' = IF r.said = "failed" THEN Len(image_folders) ELSE fi
    /\ UNCHANGED <<folder_exists, disk, preexisting, pc, epub_files, idx, temp_dir,
                   image_folders, zip_todo, report, rz>>

CompressOne ==
    /\ pc = "transform"
    /\ \E f \in todo, io \in {"ok", "fail"} :
          LET r == compress_image(tmp[temp_dir].files[f], f.ext, io, max_image_height)
          IN  /\ tmp' = [tmp EXCEPT ![temp_dir].files[f] = r.content]
              /\ messages' = messages \cup {<<r.said, f>>}
              /\ todo' = todo \ {f}
    /\ UNCHANGED <<folder_exists, disk, preexisting, pc, epub_files, idx, temp_dir,
                   image_folders, fi, zip_todo, report, rz>>

TransformDone ==
    /\ pc = "transform"
    /\ todo = {}
    /\ fi = Len(image_folders)
    /\ pc' = "repack"
    /\ UNCHANGED <<folder_exists, disk, preexisting, tmp, epub_files, idx, temp_dir,
                   image_folders, fi, todo, zip_todo, report, messages, rz>>

\* repack_epub: zipfile.ZipFile(output_epub_path, 'w') creates the file, or
\* empties the one that is there
RepackOpen ==
    /\ pc = "repack"
    /\ disk' = Put(disk, output_epub(epub), Zip(<<>>, {}))
    /\ zip_todo' = DOMAIN tmp[temp_dir].files
    /\ pc' = "zip"
    /\ UNCHANGED <<folder_exists, preexisting, tmp, epub_files, idx, temp_dir,
                   image_folders, fi, todo, report, messages, rz>>

\* the output file cannot be opened for writing
RepackOpenError ==
    /\ pc = "repack"
    /\ Failed("OSError in ZipFile")
    /\ UNCHANGED <<folder_exists, disk, preexisting, epub_files, idx, temp_dir,
                   image_folders, fi, todo, zip_todo, messages, rz>>

\* zipf.write(file_path, arcname) for the next file of the walk
ZipWrite ==
    /\ pc = "zip"
    /\ \E f \in zip_todo :
          /\ disk' = [disk EXCEPT ![output_epub(epub)].files =
                         Put(@, relpath(f, temp_dir), tmp[temp_dir].files[f])]
          /\ zip_todo' = zip_todo \ {f}
    /\ UNCHANGED <<folder_exists, preexisting, tmp, pc, epub_files, idx, temp_dir,
                   image_folders, fi, todo, report, messages, rz>>

\* a write fails (an I/O error): the with block closes the archive as it is
ZipWriteError ==
    /\ pc = "zip"
    /\ zip_todo # {}
    /\ Failed("OSError in write")
    /\ UNCHANGED <<folder_exists, disk, preexisting, epub_files, idx, temp_dir,
                   image_folders, fi, todo, zip_todo, messages, rz>>

\* the walk is over: the archive is closed, "Repacked EPUB" is printed and
\* the with block of process_epub is left
RepackClose ==
    /\ pc = "zip"
    /\ zip_todo = {}
    /\ tmp' = cleanup(tmp, temp_dir, "return")
    /\ report' = Append(report, Said(epub, "repacked", ""))
    /\ pc' = "loop"
    /\ UNCHANGED <<folder_exists, disk, preexisting, epub_files, idx, temp_dir,
                   image_folders, fi, todo, zip_todo, messages, rz>>

Next ==
    \/ MainNoFolder \/ MainNoFiles \/ MainStart \/ LoopNext \/ LoopEnd
    \/ UnpackOk \/ UnpackBadZip \/ UnpackError
    \/ LocateNone \/ LocateSome
    \/ NextFolder \/ CompressOne \/ TransformDone
    \/ RepackOpen \/ RepackOpenError \/ ZipWrite \/ ZipWriteError \/ RepackClose


\* ------------------------------------------------------ the inputs
MaxEntries == 2
NFiles == 2
MaxDim == 50
SmallMaxHeight == 15

\* Entry names of the archives: markup beside the images, an image in an
\* image folder (name in mixed case), an image two image folders deep with an
\* upper-case extension, an image outside every image folder, a text file
\* inside one, and a plain file that is called like an image folder.
P_content == Name(<<"OEBPS">>, "content", ".xhtml")
P_cover   == Name(<<"OEBPS", "Images">>, "cover", ".jpg")
P_nested  == Name(<<"images", "IMG">>, "x", ".PNG")
P_outside == Name(<<"OEBPS", "pics">>, "p", ".jpeg")
P_notes   == Name(<<"OEBPS", "Images">>, "notes", ".txt")
P_imgfile == Name(<<"OEBPS">>, "img", "")
EntryNames == {P_content, P_cover, P_nested, P_outside, P_notes, P_imgfile}

\* A directory entry of an archive: an image folder that holds nothing.
D_empty == <<"OEBPS", "image">>

\* What a file may hold: no image data, a JPEG higher than the maximum, a PNG
\* below it, a GIF higher than it, and a JPEG so narrow that its new width is 0.
Contents == {Data,
             Content("JPEG", <<401, 600>>, 0),
             Content("PNG", <<200, 300>>, 0),
             Content("GIF", <<401, 600>>, 0),
             Content("JPEG", <<1, 700>>, 0)}

\* A file with an image extension may hold any of these; any other file holds
\* no image data, or the JPEG.
ContentsOf(name) ==
    IF lower(name.ext) \in IMAGE_EXTENSIONS THEN Contents
    ELSE {Data, Content("JPEG", <<401, 600>>, 0)}

\* The well-formed archives of at most max entries over these names.
Archives(names, contents, dirs, max) ==
    UNION {UNION {{Zip(f, ds) : f \in {g \in [ns -> contents] :
                                          \A n \in ns : g[n] \in ContentsOf(n)}} :
                    ns \in {x \in SUBSET names : Cardinality(x) + Cardinality(ds) <= max}} :
           ds \in SUBSET dirs}

FileArchives == Archives(EntryNames, Contents, {D_empty}, MaxEntries) \cup {BadZip}

\* The narrow set: at most one entry, holding no image data or the PNG.
BatchArchives ==
    Archives({P_content, P_cover}, {Data, Content("PNG", <<200, 300>>, 0)}, {}, 1)
    \cup {BadZip}

\* A file that is not an archive, and what an earlier run left at an output path.
Stems == <<"a", "b", "c", "d">>
EpubPath(i) == Name(folder_path, Stems[i], EPUB_EXTENSION)
ReadmePath == Name(folder_path, "readme", ".txt")
StaleZip == Zip([n \in {Name(<<>>, "old", ".txt")} |-> Data], {})

NoCall == [pc |-> "none", width |-> 0, height |-> 0, max_height |-> 0,
           raised |-> FALSE, size |-> <<0, 0>>]

\* main is about to run on a folder of at most n archives drawn from
\* archives; with a rerun, an earlier run has left an output for each.
InitWith(archives, n, reruns) ==
    /\ \E exists \in BOOLEAN, k \in 0..n :
         \E input \in [1..k -> archives], stale \in {{}} \cup {1..k : r \in reruns \ {FALSE}} :
            /\ folder_exists = exists
            /\ preexisting = IF exists THEN {output_epub(EpubPath(i)) : i \in stale} ELSE {}
            /\ disk = IF ~exists THEN <<>>
                      ELSE [p \in {EpubPath(i) : i \in 1..k} \cup {ReadmePath}
                                  \cup {output_epub(EpubPath(i)) : i \in stale} |->
                               IF p = ReadmePath THEN BadZip
                               ELSE IF p.dir = compressed_dir THEN StaleZip
                               ELSE input[CHOOSE i \in 1..k : EpubPath(i) = p]]
    /\ tmp = <<>>
    /\ pc = "main"
    /\ epub_files = <<>>
    /\ idx = 0
    /\ temp_dir = <<>>
    /\ image_folders = <<>>
    /\ fi = 0
    /\ todo = {}
    /\ zip_todo = {}
    /\ report = <<>>
    /\ messages = {}
    /\ rz = NoCall

\* One archive, drawn from the wide set.
Init == InitWith(FileArchives, 1, BOOLEAN)
Spec == Init /\ [][Next]_vars

\* A batch of archives, drawn from the narrow set; every step main can take
\* is eventually taken (the program runs on).
BatchInit == InitWith(BatchArchives, NFiles, {FALSE})
BatchSpec == BatchInit /\ [][Next]_vars /\ WF_vars(Next)

\* A call of resize_image on its own, for every size and maximum height of a
\* bounded set.
ResizeInit ==
    /\ \E w \in 1..MaxDim, h \in (1..MaxDim) \cup {10 * k : k \in 1..MaxDim},
          H \in {SmallMaxHeight, max_image_height} :
           rz = [pc |-> "call", width |-> w, height |-> h, max_height |-> H,
                 raised |-> FALSE, size |-> <<w, h>>]
    /\ folder_exists = FALSE
    /\ preexisting = {}
    /\ disk = <<>>
    /\ tmp = <<>>
    /\ pc = "finished"
    /\ epub_files = <<>>
    /\ idx = 0
    /\ temp_dir = <<>>
    /\ image_folders = <<>>
    /\ fi = 0
    /\ todo = {}
    /\ zip_todo = {}
    /\ report = <<>>
    /\ messages = {}

ResizeCall ==
    /\ rz.pc = "call"
    /\ LET r == resize_image(<<rz.width, rz.height>>, rz.max_height)
       IN  rz' = [rz EXCEPT !.pc = "returned", !.raised = r.raised, !.size = r.size]
    /\ UNCHANGED filevars

ResizeNext == ResizeCall
ResizeSpec == ResizeInit /\ [][ResizeNext]_vars

\* ============================================================ claims
\* What the claims speak of, said without the program's own operators.

\* An image candidate: a file with an image extension under a directory that
\* is called images, img or image, at any depth, in any case.
IsCandidate(name) ==
    /\ lower(name.ext) \in IMAGE_EXTENSIONS
    /\ \E k \in 1..Len(name.dir) : lower(name.dir[k]) \in IMAGE_FOLDER_NAMES

\* The extracted tree of an archive has a directory called like an image folder.
HasImageDir(zip) ==
    \/ \E n \in DOMAIN zip.files :
          \E k \in 1..Len(n.dir) : lower(n.dir[k]) \in IMAGE_FOLDER_NAMES
    \/ \E d \in zip.dirs : \E k \in 1..Len(d) : lower(d[k]) \in IMAGE_FOLDER_NAMES

\* The i-th processed file's input archive, output path and working area root.
InputOf(i) == disk[report[i].file]
OutPathOf(i) == [dir |-> folder_path \o <<COMPRESSED_FOLDER_NAME>>,
                 stem |-> report[i].file.stem, ext |-> report[i].file.ext]
Produced(i) == report[i].outcome = "repacked"
InArea(i, name) == [dir |-> TempRoot(i) \o name.dir, stem |-> name.stem, ext |-> name.ext]

\* The working area of the file being processed, between extraction and the end.
Working == pc \in {"locate", "transform", "repack", "zip"}
NowInArea(name) == [dir |-> temp_dir \o name.dir, stem |-> name.stem, ext |-> name.ext]

\* C1: whenever an output archive was produced, every entry of the input
\* that is not an image candidate is in the output under the same relative
\* path with the same content.
C1_NonImagesPreserved ==
    \A i \in 1..Len(report) :
        Produced(i) =>
            \A n \in DOMAIN InputOf(i).files :
                ~IsCandidate(n) =>
                    /\ n \in DOMAIN disk[OutPathOf(i)].files
                    /\ disk[OutPathOf(i)].files[n] = InputOf(i).files[n]

\* an output was produced from an archive holding image data in a file that
\* is no candidate, beside a candidate that was rewritten
C1_Witness ==
    /\ Len(report) = 1 /\ Produced(1)
    /\ \E n \in DOMAIN InputOf(1).files :
          ~IsCandidate(n) /\ InputOf(1).files[n].format = "JPEG"
    /\ \E n \in DOMAIN InputOf(1).files :
          IsCandidate(n) /\ disk[OutPathOf(1)].files[n].passes > 0

\* C2: an archive whose extracted tree has no directory called images, img or
\* image never reaches the repack step, and no file is created at its output
\* path (a file an earlier run left there stays as it was).
C2_NoImageFolderNoOutput ==
    /\ (Working /\ ~HasImageDir(disk[epub])) => pc = "locate"
    /\ \A i \in 1..Len(report) :
          ~HasImageDir(InputOf(i)) =>
              /\ ~Produced(i)
              /\ OutPathOf(i) \in DOMAIN disk =>
                    (OutPathOf(i) \in preexisting /\ disk[OutPathOf(i)] = StaleZip)

\* an archive holding only a plain file called img was processed to the end
C2_Witness ==
    /\ pc = "finished" /\ Len(report) = 1
    /\ report[1].outcome = "no image folders"
    /\ DOMAIN InputOf(1).files = {P_imgfile}
    /\ OutPathOf(1) \notin DOMAIN disk

\* C3 (as amended): resize_image returns (w, h) when h <= H; when h > H it
\* returns height H and the width int((H / h) * w) of float arithmetic: the
\* quotient H*w/h rounded down, or one less than it in some cases where h
\* divides H*w; when that width is 0 the resize raises.
C3_ResizeTruncates ==
    rz.pc = "returned" =>
        LET w == rz.width
            h == rz.height
            H == rz.max_height
            floor == (H * w) \div h
        IN  IF h <= H THEN ~rz.raised /\ rz.size = <<w, h>>
            ELSE /\ floor = 0 => rz.raised
                 /\ rz.raised => (floor = 0 \/ (floor = 1 /\ (H * w) % h = 0))
                 /\ ~rz.raised =>
                       /\ rz.size[2] = H
                       /\ rz.size[1] >= 1
                       /\ rz.size[1] \in {floor, floor - 1}
                       /\ (H * w) % h # 0 => rz.size[1] = floor

\* a 49 x 490 image at a maximum height of 320: 320 * 49 / 490 is 32, the
\* float product is just below it
C3_Witness ==
    /\ rz.pc = "returned" /\ ~rz.raised
    /\ rz.width = 49 /\ rz.height = 490 /\ rz.max_height = 320
    /\ rz.size = <<31, 320>>

\* C3 as stated: the new width of a returned image is H * w / h rounded to the
\* nearest integer (either neighbour at a tie).
C3_ResizeRounds ==
    rz.pc = "returned" =>
        LET w == rz.width
            h == rz.height
            H == rz.max_height
            off == rz.size[1] * h - H * w
        IN  IF h <= H THEN ~rz.raised /\ rz.size = <<w, h>>
            ELSE ~rz.raised =>
                     /\ rz.size[2] = H
                     /\ 2 * off <= h /\ -2 * off <= h

\* C4: the working area of a file is gone once process_epub has returned,
\* whichever way it returned, and at most one working area exists at any time.
C4_WorkingAreaReleased ==
    /\ Cardinality(DOMAIN tmp) <= 1
    /\ pc \in {"main", "loop", "finished"} => DOMAIN tmp = {}
    /\ Working \/ pc = "unpack" => DOMAIN tmp = {temp_dir}

\* a batch whose first file failed while its output was written and whose
\* second file was repacked
C4_Witness ==
    /\ pc = "loop" /\ Len(report) = 2
    /\ report[1].error = "OSError in write"
    /\ report[2].outcome = "repacked"
    /\ DOMAIN tmp = {}

\* A message of compress_image about an entry of the i-th file.
SaidOf(i, what, name) == <<what, InArea(i, name)>> \in messages

\* C5 (as amended): a failure of compress_image on one image candidate ends
\* neither the walk nor the processing of the archive: when the walk is over
\* every candidate has been handed to compress_image, and the output, once
\* produced, holds every entry, the entries that are no candidates unchanged
\* and a candidate that failed unchanged unless the save itself failed, which
\* leaves the torn file.
C5_ImageFailureContained ==
    /\ pc \in {"repack", "zip"} =>
          \A n \in DOMAIN disk[epub].files :
              IsCandidate(n) =>
                  \E what \in {"saved", "skipped", "failed"} :
                      <<what, NowInArea(n)>> \in messages
    /\ \A i \in 1..Len(report) :
          Produced(i) =>
              /\ DOMAIN disk[OutPathOf(i)].files = DOMAIN InputOf(i).files
              /\ \A n \in DOMAIN InputOf(i).files :
                    /\ ~IsCandidate(n) =>
                          disk[OutPathOf(i)].files[n] = InputOf(i).files[n]
                    /\ (SaidOf(i, "failed", n) /\ ~disk[OutPathOf(i)].files[n].torn) =>
                          disk[OutPathOf(i)].files[n] = InputOf(i).files[n]
                    /\ disk[OutPathOf(i)].files[n].torn => SaidOf(i, "failed", n)

\* an output was produced although one candidate held no image data; another
\* candidate, in another folder, was rewritten
C5_Witness ==
    /\ Len(report) = 1 /\ Produced(1)
    /\ \E n, m \in DOMAIN InputOf(1).files :
          /\ IsCandidate(n) /\ IsCandidate(m)
          /\ InputOf(1).files[n] = Data
          /\ SaidOf(1, "failed", n)
          /\ disk[OutPathOf(1)].files[n] = Data
          /\ SaidOf(1, "saved", m)
          /\ disk[OutPathOf(1)].files[m].passes = 1

\* C5 as stated: the file compress_image failed on is unchanged in the output.
C5_FailedFileUnchanged ==
    \A i \in 1..Len(report) :
        Produced(i) =>
            \A n \in DOMAIN InputOf(i).files :
                SaidOf(i, "failed", n) =>
                    disk[OutPathOf(i)].files[n] = InputOf(i).files[n]

\* C6 as stated: a file whose processing failed has no file, complete or
\* partial, at its output path, unless one was there before the run.
C6_FailedLeavesNoOutput ==
    \A i \in 1..Len(report) :
        (report[i].outcome = "failed" /\ OutPathOf(i) \notin preexisting) =>
            OutPathOf(i) \notin DOMAIN disk

\* C7: main runs process_epub on every discovered file once and in the order
\* of the list, one file ending before the next begins, and comes to the end
\* of the list whatever the outcomes were.
C7_BatchCompletes ==
    /\ [](\A i \in 1..Len(report) : report[i].file = epub_files[i])
    /\ [](Len(report) <= idx /\ idx <= Len(report) + 1 /\ idx <= Len(epub_files))
    /\ [](pc \in {"loop", "finished"} => Len(report) = idx)
    /\ <>(pc = "finished" /\ Len(report) = Len(epub_files))

\* a batch of two ended: the first file was no archive, the second had no
\* image folder
C7_Witness ==
    /\ pc = "finished" /\ Len(report) = 2
    /\ report[1].error = "BadZipFile"
    /\ report[2].outcome = "no image folders"

\* C8: the entry names of a produced output are the relative paths of the
\* files under the working area at repack time, which are the names of the
\* file entries of the input: nothing is added, removed or renamed.
C8_EntryNamesPreserved ==
    /\ Working =>
          DOMAIN tmp[temp_dir].files = {NowInArea(n) : n \in DOMAIN disk[epub].files}
    /\ (pc = "zip" /\ zip_todo = {}) =>
          {NowInArea(n) : n \in DOMAIN disk[output_epub(epub)].files}
              = DOMAIN tmp[temp_dir].files
    /\ \A i \in 1..Len(report) :
          Produced(i) => DOMAIN disk[OutPathOf(i)].files = DOMAIN InputOf(i).files

\* an output of two entries was produced, one rewritten and one not
C8_Witness ==
    /\ Len(report) = 1 /\ Produced(1)
    /\ Cardinality(DOMAIN disk[OutPathOf(1)].files) = 2
    /\ \E n, m \in DOMAIN disk[OutPathOf(1)].files :
          /\ disk[OutPathOf(1)].files[n].passes = 1
          /\ disk[OutPathOf(1)].files[m] = InputOf(1).files[m]
          /\ n.dir # <<>> /\ m.dir # <<>>

\* C9: what compress_image writes depends on the decoded format alone: once
\* the walk is over, a candidate decoded as neither JPEG nor PNG is as it
\* was, a candidate that was saved has the format it was decoded as, and no
\* candidate has another format than before unless its save failed.
C9_FormatDecides ==
    pc = "repack" =>
        \A n \in DOMAIN disk[epub].files :
            IsCandidate(n) =>
                LET old == disk[epub].files[n]
                    new == tmp[temp_dir].files[NowInArea(n)]
                IN  /\ old.format \notin {"JPEG", "PNG"} => new = old
                    /\ new # old => new.torn \/ new.format = old.format
                    /\ (<<"saved", NowInArea(n)>> \in messages /\ ~new.torn) =>
                          new.format = old.format /\ new.passes >= 1

\* the walk is over: cover.jpg held a PNG and was saved as a PNG
C9_Witness ==
    /\ pc = "repack"
    /\ P_cover \in DOMAIN disk[epub].files
    /\ disk[epub].files[P_cover].format = "PNG"
    /\ tmp[temp_dir].files[NowInArea(P_cover)] = Content("PNG", <<200, 300>>, 1)

\* C10 as stated: no file of a working area is re-encoded more than once.
C10_TransformedAtMostOnce ==
    \A root \in DOMAIN tmp :
        \A f \in DOMAIN tmp[root].files : tmp[root].files[f].passes <= 1
====
